---- MODULE Spec2Model ----
(***************************************************************************)
(* A model of the AgentAI repository:                                      *)
(*   - src/Tool_creation.py: the tool registry, the four tools and the     *)
(*     bounded tool-calling conversation loop of main();                   *)
(*   - src/routing.py: the complexity router (route_llm, ask);             *)
(*   - src/intent_classification.py: the intent validator.                 *)
(* The three programs share no run-time state; each has its own            *)
(* specification (Spec, SpecRegistry, SpecRoute, SpecIntent) over the      *)
(* variables it uses, the other variables staying at their initial value.  *)
(***************************************************************************)
EXTENDS Integers, Sequences, FiniteSets, TLC

VARIABLES
    \* ---- src/Tool_creation.py ----
    tools,             \* registry.tools: name -> executable
    tool_definitions,  \* registry.tool_definitions: list of declarations
    registrations,     \* the register calls made so far, in call order
    pc,                \* position of main()
    response,          \* the backend response in hand: its list of parts
    iteration,         \* main's local counter
    call,              \* the function_call handed to process_tool_call
    result,            \* the value registry.execute returned
    invoked,           \* the executable registry.execute invoked, or "none"
    answer,            \* the model-authored texts printed in this turn
    warned,            \* the iteration-bound warning was printed in this turn
    fault,             \* the exception main's "except Exception" caught in this turn
    execs,             \* calls of registry.execute in this turn
    sends,             \* calls of chat.send_message in this turn
    received,          \* the kinds of the responses received in this turn
    executed,          \* the name and arguments last passed to registry.execute
    ended,             \* how the last completed turn ended
    interrupted,       \* "no", or the position at which a KeyboardInterrupt arrived
    listing,           \* the last value list_tools returned
    \* ---- src/routing.py ----
    rpc,               \* position of the prompt loop of routing.py
    decisionText,      \* the raw text the router model returned
    handle,            \* the handle route_llm returned
    prompt,            \* q, the line read by input()
    classifyCalls,     \* generate_content calls on router_model in this ask
    generateCalls,     \* generate_content calls on flash or pro in this ask
    classified,        \* the text the router model was last called with
    generated,         \* the handle and the text of the last generation call
    lastAsk,           \* the prompt and the handle of the last ask that returned
    \* ---- src/intent_classification.py ----
    intents,           \* the allowed labels of the current call
    earlier,           \* labels allowed in earlier calls
    replyText,         \* the backend's response text of the current call
    outcome,           \* what classify_intent did: returned a label or raised
    \* ---- calculate, called through registry.execute ----
    calcArgs,          \* the keyword arguments of the call
    calcResult         \* the value the call returned, None before it returns

mainVars == <<tools, tool_definitions, registrations, pc, response, iteration, call, result,
              invoked, answer, warned, fault, execs, sends, received,
              executed, ended, interrupted, listing>>
routeVars == <<rpc, decisionText, handle, prompt, classifyCalls, generateCalls,
               classified, generated, lastAsk>>
intentVars == <<intents, earlier, replyText, outcome>>
calcVars == <<calcArgs, calcResult>>
vars == <<mainVars, routeVars, intentVars, calcVars>>

(***************************************************************************)
(* Python values.  A dict is a function from its keys; None, an unset      *)
(* local and "no exception" are records of their own.                      *)
(***************************************************************************)
None == [none |-> TRUE]
IsNone(v) == "none" \in DOMAIN v

\* The outcome of a Python call: it returns a value or raises an exception.
Return(v) == [raised |-> FALSE, value |-> v]
Raise(exc, reason, origin) ==
    [raised |-> TRUE, exc |-> exc, reason |-> reason, origin |-> origin]

NoFault == [raised |-> FALSE]

\* {"error": message}: the message is the list of the f-string's pieces.
ErrorDict(pieces) == [error |-> pieces]
IsErrorShaped(r) == "error" \in DOMAIN r
Contains(pieces, s) == \E i \in 1..Len(pieces) : pieces[i] = s

(***************************************************************************)
(* The tool functions (src/Tool_creation.py:62-197).                       *)
(***************************************************************************)
ToolFuncs == {"get_weather", "calculate", "get_time_info", "convert_units"}

\* The parameters of each def, and those without a default.
Params(func) ==
    CASE func = "get_weather" -> {"location"}
      [] func = "calculate" -> {"operation", "a", "b"}
      [] func = "get_time_info" -> {"timezone", "format_type"}
      [] func = "convert_units" -> {"value", "from_unit", "to_unit", "category"}
      [] OTHER -> {}

RequiredParams(func) ==
    CASE func = "get_weather" -> {"location"}
      [] func = "calculate" -> {"operation", "a"}
      [] func = "get_time_info" -> {}
      [] func = "convert_units" -> {"value", "from_unit", "to_unit"}
      [] OTHER -> {}

\* kwargs[k] if given, else the parameter's default.
Arg(kwargs, k, default) == IF k \in DOMAIN kwargs THEN kwargs[k] ELSE default

\* get_weather: the HTTP lookup answers, answers with a non-200 status, or fails.
get_weather(kwargs) ==
    { Return([location |-> kwargs.location, temperature_celsius |-> "temp",
              description |-> "description", humidity |-> "humidity",
              wind_speed |-> "speed"]),
      Return(ErrorDict(<<"Location not found">>)),
      Return(ErrorDict(<<"Failed to fetch weather: ", "ConnectionError">>)) }

\* Numbers, and the one string calculate stores in "result".
Num(n) == [num |-> n]
Frac(n, d) == [num |-> n, den |-> d]
Str(s) == [str |-> s]
IsNumber(v) == "num" \in DOMAIN v

RECURSIVE IntPow(_, _)
IntPow(x, y) == IF y = 0 THEN 1 ELSE x * IntPow(x, y - 1)

\* Python's x % y for y # 0: the result has the sign of y.
PyMod(x, y) == IF y > 0 THEN x % y ELSE -((-x) % (-y))

Operations == {"add", "subtract", "multiply", "divide", "power", "sqrt", "modulo"}

\* operations[operation](x, y): a number, or an exception of the lambda.
ApplyOperation(operation, x, y) ==
    CASE operation = "add" -> Return(Num(x + y))
      [] operation = "subtract" -> Return(Num(x - y))
      [] operation = "multiply" -> Return(Num(x * y))
      [] operation = "divide" ->
            IF y # 0 THEN Return(Frac(x, y))
            ELSE Return(Str("Error: Division by zero"))
      [] operation = "power" ->
            IF y >= 0 THEN Return(Num(IntPow(x, y)))
            ELSE IF x = 0
                 THEN Raise("ZeroDivisionError",
                            "0.0 cannot be raised to a negative power", "tool")
                 ELSE Return(Frac(1, IntPow(x, -y)))
      [] operation = "sqrt" ->
            IF x < 0 THEN Raise("ValueError", "math domain error", "tool")
            ELSE Return([sqrt |-> x, num |-> TRUE])
      [] operation = "modulo" ->
            IF y = 0 THEN Raise("ZeroDivisionError", "modulo by zero", "tool")
            ELSE Return(Num(PyMod(x, y)))

\* A calculate that stores the failure of the operation in "result".
CalculateResultUnchecked(operation, a, b, r) ==
    [operation |-> operation, operand_a |-> a, operand_b |-> b,
     result |-> IF r.raised THEN Str(r.reason) ELSE r.value]

CalculateResult(operation, a, b, r) ==
    IF r.raised THEN ErrorDict(<<"Calculation failed: ", r.reason>>)
    ELSE [operation |-> operation, operand_a |-> a, operand_b |-> b,
          result |-> r.value]

calculate(kwargs) ==
    LET operation == kwargs.operation
        a == kwargs.a
        hasB == "b" \in DOMAIN kwargs
    IN  IF operation \notin Operations
        THEN {Return(ErrorDict(<<"Unknown operation: ", operation>>))}
        ELSE IF operation = "sqrt"
        THEN {Return(CalculateResult(operation, a,
                                     IF hasB THEN Num(kwargs.b) ELSE None,
                                     ApplyOperation(operation, a, 0)))}
        ELSE IF ~hasB
        THEN {Return(ErrorDict(<<"Second operand required for this operation">>))}
        ELSE {Return(CalculateResult(operation, a, Num(kwargs.b),
                                     ApplyOperation(operation, a, kwargs.b)))}

TimeZones == {"UTC", "Asia/Tokyo"}

get_time_info(kwargs) ==
    LET timezone == Arg(kwargs, "timezone", "UTC")
    IN  IF timezone \notin TimeZones
        THEN {Return(ErrorDict(<<"Failed to get time info: ", timezone>>))}
        ELSE {Return([timezone |-> timezone, timestamp |-> "timestamp",
                      day_of_week |-> "day", unix_timestamp |-> "unix"])}

LengthUnits == {"meters", "kilometers", "miles", "feet", "inches"}
TemperatureUnits == {"celsius", "fahrenheit", "kelvin"}
Categories == {"length", "temperature", "weight"}

convert_units(kwargs) ==
    LET category == Arg(kwargs, "category", "length")
        converted == [original_value |-> kwargs.value,
                      from_unit |-> kwargs.from_unit,
                      to_unit |-> kwargs.to_unit,
                      converted_value |-> "rounded", category |-> category]
    IN  IF category \notin Categories
        THEN {Return(ErrorDict(<<"Unknown category: ", category>>))}
        ELSE IF category = "temperature"
        THEN IF kwargs.from_unit \notin TemperatureUnits
             THEN {Return(ErrorDict(<<"Unknown temperature unit: ",
                                      kwargs.from_unit>>))}
             ELSE IF kwargs.to_unit \notin TemperatureUnits
             THEN {Return(ErrorDict(<<"Conversion failed: ", kwargs.to_unit>>))}
             ELSE {Return(converted)}
        ELSE {Return(converted)}

ToolBody(func, kwargs) ==
    CASE func = "get_weather" -> get_weather(kwargs)
      [] func = "calculate" -> calculate(kwargs)
      [] func = "get_time_info" -> get_time_info(kwargs)
      [] func = "convert_units" -> convert_units(kwargs)

\* func(**kwargs): Python binds the keywords to the parameters, then runs the body.
CallTool(func, kwargs) ==
    IF ~(DOMAIN kwargs \subseteq Params(func))
    THEN {Raise("TypeError", "got an unexpected keyword argument", "tool")}
    ELSE IF ~(RequiredParams(func) \subseteq DOMAIN kwargs)
    THEN {Raise("TypeError", "missing required positional argument", "tool")}
    ELSE ToolBody(func, kwargs)

(***************************************************************************)
(* The tool declarations (src/Tool_creation.py:202-287).                   *)
(***************************************************************************)
weather_tool ==
    [name |-> "get_weather",
     description |-> "Get current weather information for a given city",
     properties |-> {"location"}, required |-> <<"location">>,
     enum |-> <<>>]

calculator_tool ==
    [name |-> "calculate",
     description |-> "Perform mathematical calculations",
     properties |-> {"operation", "a", "b"}, required |-> <<"operation", "a">>,
     enum |-> [operation |-> Operations]]

time_tool ==
    [name |-> "get_time_info",
     description |-> "Get current time and date information for a specific timezone",
     properties |-> {"timezone", "format_type"}, required |-> <<"timezone">>,
     enum |-> [format_type |-> {"full", "date", "time", "datetime"}]]

unit_converter_tool ==
    [name |-> "convert_units",
     description |-> "Convert between different units of measurement",
     properties |-> {"value", "from_unit", "to_unit", "category"},
     required |-> <<"value", "from_unit", "to_unit", "category">>,
     enum |-> [category |-> Categories]]

(***************************************************************************)
(* ToolRegistry (src/Tool_creation.py:24-54).  A registry value is the     *)
(* pair of its two fields.                                                 *)
(***************************************************************************)
EmptyRegistry == [tools |-> <<>>, tool_definitions |-> <<>>]

\* A register that puts the new declaration in front of the list.
register_prepend(reg, name, func, definition) ==
    [tools |-> (name :> func) @@ reg.tools,
     tool_definitions |-> <<definition>> \o reg.tool_definitions]

\* register: self.tools[name] = func; self.tool_definitions.append(definition)
register(reg, name, func, definition) ==
    [tools |-> (name :> func) @@ reg.tools,
     tool_definitions |-> Append(reg.tool_definitions, definition)]

\* A report of a failed execution that leaves the reason out.
ExecutionFailedGeneric(o) == ErrorDict(<<"Tool execution failed">>)

\* The exception a tool executable raised, as execute reports it.
ExecutionFailed(o) == ErrorDict(<<"Tool execution failed: ", o.reason>>)

\* execute(name, **kwargs): the outcomes of the call, each with the executable it
\* invoked ("none" when it invoked none).
execute(regTools, name, kwargs) ==
    IF name \notin DOMAIN regTools
    THEN {[out |-> Return(ErrorDict(<<"Tool '", name, "' not found">>)),
           invoked |-> "none"]}
    ELSE {[out |-> IF o.raised THEN Return(ExecutionFailed(o)) ELSE o,
           invoked |-> regTools[name]] : o \in CallTool(regTools[name], kwargs)}

\* list_tools: one "- name: description" line per declaration, in list order.
list_tools(defs) == [i \in 1..Len(defs) |-> <<defs[i].name, defs[i].description>>]

\* The registry as main() finds it: the four module-level register calls
\* (src/Tool_creation.py:290-293) on the registry of line 57.
ModuleRegistrations ==
    <<[name |-> "get_weather", func |-> "get_weather", definition |-> weather_tool],
      [name |-> "calculate", func |-> "calculate", definition |-> calculator_tool],
      [name |-> "get_time_info", func |-> "get_time_info", definition |-> time_tool],
      [name |-> "convert_units", func |-> "convert_units",
       definition |-> unit_converter_tool]>>

registry ==
    register(
      register(
        register(
          register(EmptyRegistry, "get_weather", "get_weather", weather_tool),
          "calculate", "calculate", calculator_tool),
        "get_time_info", "get_time_info", time_tool),
      "convert_units", "convert_units", unit_converter_tool)

(***************************************************************************)
(* The model backend (google.generativeai chat session): what a call of    *)
(* chat.send_message can return.  A response is the list of the parts of   *)
(* its first candidate; a part is a text or a function call.               *)
(***************************************************************************)
RequestNames == {"calculate", "get_weather", "get_time_info", "convert_units",
                 "no_such_tool"}

\* The parameters of ToolRegistry.execute itself (src/Tool_creation.py:36).
ExecuteParams == {"self", "name"}

ArgMaps ==
    { [operation |-> "add", a |-> 2, b |-> 3],
      [operation |-> "sqrt", a |-> -1],
      [location |-> "Paris"],
      [value |-> 1, from_unit |-> "meters", to_unit |-> "feet"],
      [name |-> "calculate", operation |-> "add", a |-> 2, b |-> 3],
      <<>> }

Requests == {[name |-> n, args |-> a] : n \in RequestNames, a \in ArgMaps}

Texts == {"5", "It is sunny"}

TextPart(t) == [text |-> t]
CallPart(r) == [function_call |-> r]
IsCallPart(p) == "function_call" \in DOMAIN p

Parts == {TextPart(t) : t \in Texts} \cup {CallPart(r) : r \in Requests}

\* A second part, for the responses that carry two.
SecondParts == {CallPart([name |-> "get_time_info", args |-> <<>>])}

Responses ==
    {<<>>} \cup {<<p>> : p \in Parts} \cup {<<p, q>> : p \in Parts, q \in SecondParts}

HasCall(resp) == \E i \in 1..Len(resp) : IsCallPart(resp[i])
\* The test of src/Tool_creation.py:385-387.
FirstIsCall(resp) == Len(resp) > 0 /\ IsCallPart(resp[1])
IsText(resp) == Len(resp) > 0 /\ \A i \in 1..Len(resp) : ~IsCallPart(resp[i])

Kind(resp) ==
    IF FirstIsCall(resp) THEN "call"
    ELSE IF IsText(resp) THEN "text"
    ELSE IF HasCall(resp) THEN "text+call"
    ELSE "empty"

\* response.text: the text of a response of text parts; the accessor raises
\* ValueError for a response without parts or with a function-call part.
ResponseText(resp) ==
    IF IsText(resp) THEN Return(resp[1].text)
    ELSE Raise("ValueError", "response.text: no text", "response")

(***************************************************************************)
(* main() (src/Tool_creation.py:349-411).  One action per step of the      *)
(* conversation loop; the steps are cut at the blocking calls (input,      *)
(* chat.send_message, registry.execute).                                   *)
(***************************************************************************)
max_iterations == 5

registryVars == <<tools, tool_definitions, registrations>>
otherVars == <<routeVars, intentVars, calcVars>>

\* How a turn that reached the end of the try block ended.
Ending(ans, warn) ==
    IF Len(ans) > 0 /\ warn THEN "final+warning"
    ELSE IF warn THEN "warning"
    ELSE IF Len(ans) > 0 THEN "final"
    ELSE "silent"

\* A handler that reports e and leaves the conversation loop.
CaughtFatal(e) ==
    /\ fault' = e
    /\ pc' = "exited"
    /\ ended' = e.origin

\* "except Exception as e" (lines 407-411): report e, go back to input().  The
\* turn is recorded as ended by a fault of e's origin: "backend" (a
\* chat.send_message call), "tool_step" (process_tool_call before the result is
\* sent) or "response" (reading response.text).
Caught(e) ==
    /\ fault' = e
    /\ pc' = "input"
    /\ ended' = e.origin

\* input() returned 'quit' or 'exit' (lines 360-362).
Quit ==
    /\ pc = "input"
    /\ pc' = "exited"
    /\ UNCHANGED <<registryVars, response, iteration, call, result, invoked,
                   answer, warned, fault, execs, sends, received, executed,
                   ended, interrupted, listing, otherVars>>

\* input() returned 'help' or 'tools' (lines 363-370): print registry.list_tools().
ListTools ==
    /\ pc = "input"
    /\ listing' = list_tools(tool_definitions)
    /\ UNCHANGED <<registryVars, pc, response, iteration, call, result, invoked,
                   answer, warned, fault, execs, sends, received, executed,
                   ended, interrupted, otherVars>>

\* input() returned an empty line (lines 371-372).
EmptyInput ==
    /\ pc = "input"
    /\ UNCHANGED vars

\* input() returned a prompt: a new turn begins.
SubmitPrompt ==
    /\ pc = "input"
    /\ pc' = "send"
    /\ answer' = <<>>
    /\ warned' = FALSE
    /\ fault' = NoFault
    /\ execs' = 0
    /\ sends' = 0
    /\ received' = <<>>
    /\ UNCHANGED <<registryVars, response, iteration, call, result, invoked,
                   executed, ended, interrupted, listing, otherVars>>

\* A first send that leaves the counter of the previous prompt in place.
SendPromptKeepCounter ==
    /\ pc = "send"
    /\ sends' = sends + 1
    /\ \/ \E r \in Responses :
            /\ response' = r
            /\ received' = Append(received, Kind(r))
            /\ pc' = "check"
            /\ UNCHANGED <<fault, ended, iteration>>
       \/ /\ Caught(Raise("Exception", "backend call failed", "backend"))
          /\ UNCHANGED <<response, received, iteration>>
    /\ UNCHANGED <<registryVars, call, result, invoked, answer, warned, execs,
                   executed, interrupted, listing, otherVars>>

\* response = chat.send_message(user_query); max_iterations = 5; iteration = 0
\* (lines 375-379), or the call raises.
SendPrompt ==
    /\ pc = "send"
    /\ sends' = sends + 1
    /\ \/ \E r \in Responses :
            /\ response' = r
            /\ received' = Append(received, Kind(r))
            /\ iteration' = 0
            /\ pc' = "check"
            /\ UNCHANGED <<fault, ended>>
       \/ /\ Caught(Raise("Exception", "backend call failed", "backend"))
          /\ UNCHANGED <<response, received, iteration>>
    /\ UNCHANGED <<registryVars, call, result, invoked, answer, warned, execs,
                   executed, interrupted, listing, otherVars>>

\* One pass of "while iteration < max_iterations" up to the tool call or the
\* break (lines 381-397).
CheckResponse ==
    /\ pc = "check"
    /\ IF iteration < max_iterations
       THEN /\ iteration' = iteration + 1
            /\ IF FirstIsCall(response)
               THEN /\ call' = response[1].function_call
                    /\ pc' = "exec"
                    /\ UNCHANGED <<answer, fault, ended>>
               ELSE LET text == ResponseText(response)
                    IN  IF text.raised
                        THEN /\ Caught(text)
                             /\ UNCHANGED <<answer, call>>
                        ELSE /\ answer' = Append(answer, text.value)
                             /\ pc' = "after"
                             /\ UNCHANGED <<call, fault, ended>>
       ELSE /\ pc' = "after"
            /\ UNCHANGED <<iteration, call, answer, fault, ended>>
    /\ UNCHANGED <<registryVars, response, result, invoked, warned, execs, sends,
                   received, executed, interrupted, listing, otherVars>>

\* registry.execute(tool_name, **args) as process_tool_call calls it (line 331):
\* a key of args that is a parameter of execute itself makes the call raise
\* TypeError before execute runs.
ExecuteCall(regTools, name, args) ==
    IF DOMAIN args \cap ExecuteParams # {}
    THEN {[out |-> Raise("TypeError", "execute() got multiple values for argument",
                         "tool_step"),
           invoked |-> "none"]}
    ELSE execute(regTools, name, args)

\* process_tool_call up to the result (lines 324-334).
ExecuteTool ==
    /\ pc = "exec"
    /\ \E o \in ExecuteCall(tools, call.name, call.args) :
          IF o.out.raised
          THEN /\ Caught(o.out)
               /\ UNCHANGED <<result, invoked, execs, executed>>
          ELSE /\ result' = o.out.value
               /\ invoked' = o.invoked
               /\ execs' = execs + 1
               /\ executed' = [name |-> call.name, args |-> call.args]
               /\ pc' = "send_result"
               /\ UNCHANGED <<fault, ended>>
    /\ UNCHANGED <<registryVars, response, iteration, call, answer, warned, sends,
                   received, interrupted, listing, otherVars>>

\* chat.send_message(Part.from_function_response(...)) (lines 337-344), or the
\* call raises.
SendToolResult ==
    /\ pc = "send_result"
    /\ sends' = sends + 1
    /\ \/ \E r \in Responses :
            /\ response' = r
            /\ received' = Append(received, Kind(r))
            /\ pc' = "check"
            /\ UNCHANGED <<fault, ended>>
       \/ /\ Caught(Raise("Exception", "backend call failed", "backend"))
          /\ UNCHANGED <<response, received>>
    /\ UNCHANGED <<registryVars, iteration, call, result, invoked, answer, warned,
                   execs, executed, interrupted, listing, otherVars>>

\* "if iteration >= max_iterations" after the loop (lines 399-402), then back
\* to input().
AfterLoop ==
    /\ pc = "after"
    /\ warned' = (iteration >= max_iterations)
    /\ ended' = Ending(answer, warned')
    /\ pc' = "input"
    /\ UNCHANGED <<registryVars, response, iteration, call, result, invoked,
                   answer, fault, execs, sends, received, executed, interrupted,
                   listing, otherVars>>

\* A handler that goes back to input() after an interrupt.
AfterInterruptResume == "input"

\* Where "except KeyboardInterrupt" (lines 404-406) leaves main.
AfterInterrupt == "exited"

\* A KeyboardInterrupt arrives anywhere in the try block.
Interrupt ==
    /\ pc \in {"input", "send", "check", "exec", "send_result", "after"}
    /\ interrupted' = pc
    /\ pc' = AfterInterrupt
    /\ UNCHANGED <<registryVars, response, iteration, call, result, invoked,
                   answer, warned, fault, execs, sends, received, executed,
                   ended, listing, otherVars>>

RouteIdle ==
    /\ rpc = "idle"
    /\ decisionText = <<>>
    /\ handle = "none"
    /\ prompt = <<>>
    /\ classifyCalls = 0
    /\ generateCalls = 0
    /\ classified = <<>>
    /\ generated = None
    /\ lastAsk = None
CalcIdle == calcArgs = <<>> /\ calcResult = None
IntentIdle == intents = {} /\ earlier = {} /\ replyText = None /\ outcome = None

Init ==
    /\ tools = registry.tools
    /\ tool_definitions = registry.tool_definitions
    /\ registrations = ModuleRegistrations
    /\ pc = "input"
    /\ response = <<>>
    /\ iteration = 0
    /\ call = None
    /\ result = None
    /\ invoked = "none"
    /\ answer = <<>>
    /\ warned = FALSE
    /\ fault = NoFault
    /\ execs = 0
    /\ sends = 0
    /\ received = <<>>
    /\ executed = None
    /\ ended = "none"
    /\ interrupted = "no"
    /\ listing = <<>>
    /\ RouteIdle
    /\ IntentIdle
    /\ CalcIdle

Next ==
    \/ Quit
    \/ ListTools
    \/ EmptyInput
    \/ SubmitPrompt
    \/ SendPrompt
    \/ CheckResponse
    \/ ExecuteTool
    \/ SendToolResult
    \/ AfterLoop
    \/ Interrupt

Spec == Init /\ [][Next]_vars

(***************************************************************************)
(* Properties of the conversation loop (specification Spec).               *)
(***************************************************************************)
\* The last turn ran to its end: main is back at input() and the observations
\* (answer, warned, fault, execs, sends, received) are those of that turn.
TurnEnded == pc = "input" /\ ended # "none"

BackendFault == fault.raised /\ fault.origin = "backend"
ToolStepFault == fault.raised /\ fault.origin = "tool_step"
RegistryUntouched ==
    tools = registry.tools /\ tool_definitions = registry.tool_definitions

NumCalls(kinds) == Cardinality({i \in 1..Len(kinds) : kinds[i] = "call"})
AllCalls(kinds) == Len(kinds) > 0 /\ \A i \in 1..Len(kinds) : kinds[i] = "call"

\* C1: a turn in which the backend answered every message with a tool-call
\* request (and no backend call failed) ends after exactly 5 calls of
\* registry.execute with the iteration-bound warning and no model-authored answer.
C1_IterationBound ==
    (TurnEnded /\ AllCalls(received) /\ ~BackendFault)
        => (execs = max_iterations /\ warned /\ answer = <<>> /\ ended = "warning")

\* C2: in one turn the iteration-bound warning and a printed model-authored
\* final text never occur together.
C2_WarningExcludesAnswer == ~(warned /\ Len(answer) > 0)

\* C3: the tool step of process_tool_call never raises to main: from every
\* tool-call request it goes on to send a result to the backend.
C3_ToolStepNeverFaults ==
    [][(pc = "exec" /\ interrupted' = interrupted)
          => (pc' = "send_result" /\ ~ToolStepFault')]_vars

\* C4: executing a name that is not registered yields, without raising, the
\* error-shaped "not found" result naming the tool, invokes no executable, leaves
\* the registry unchanged, and the loop goes on to send that result.
C4_UnregisteredIsReported ==
    [][(pc = "exec" /\ call.name \notin DOMAIN tools /\ interrupted' = interrupted)
          => /\ pc' = "send_result"
             /\ IsErrorShaped(result')
             /\ Contains(result'.error, call.name)
             /\ invoked' = "none"
             /\ tools' = tools
             /\ tool_definitions' = tool_definitions]_vars

\* C6: a turn in which the backend sent k < 5 tool-call requests and otherwise
\* only a final text (no backend call failed) ends with exactly k calls of
\* registry.execute and with exactly that text printed as the answer.
C6_KCyclesThenAnswer ==
    (/\ TurnEnded
     /\ ~BackendFault
     /\ \A i \in 1..Len(received) : received[i] \in {"call", "text"}
     /\ NumCalls(received) < max_iterations)
        => (/\ execs = NumCalls(received)
            /\ Len(answer) = 1
            /\ IsText(response)
            /\ answer[1] = response[1].text)

\* C7: a fault of a backend call (the send of the prompt or of a tool result)
\* only ends the current turn: it is reported, the registry is unchanged, main
\* is back at input(), and a step from a backend call goes nowhere else than to
\* the loop test, to input() or (on an interrupt) out of main; every prompt
\* enters the loop with iteration = 0.
C7_BackendFaultEndsTurnOnly ==
    [][/\ (pc \in {"send", "send_result"} /\ interrupted' = interrupted)
            => \/ pc' = "check" /\ fault' = fault
               \/ /\ pc' = "input"
                  /\ BackendFault'
                  /\ ended' = "backend"
                  /\ tools' = tools
                  /\ tool_definitions' = tool_definitions
                  /\ answer' = answer
       /\ (pc = "send" /\ pc' = "check") => iteration' = 0]_vars

\* C7 witness: after a turn ended by a backend fault during a tool cycle,
\* the next prompt is at its first loop test with a fresh budget.
C7_Witness ==
    /\ pc = "check"
    /\ ended = "backend"
    /\ Len(received) = 1
    /\ iteration = 0
    /\ execs = 0
    /\ ~IsNone(executed)

\* C8 as stated: after an interrupt main keeps accepting prompts, with the
\* registry untouched.
C8_InterruptReturnsToPrompt ==
    interrupted # "no" => (pc = "input" /\ RegistryUntouched)

\* C8 as amended: an interrupt ends the conversation loop: main has left the
\* loop for good (no step is possible, no further prompt is read), the registry
\* is untouched.
C8_InterruptEndsConversation ==
    interrupted # "no" =>
        /\ pc = "exited"
        /\ RegistryUntouched
        /\ ~ENABLED Next

\* C8 witness: the interrupt arrived in the middle of a tool cycle.
C8_Witness ==
    interrupted \in {"exec", "send_result"} /\ pc = "exited" /\ execs > 0

(***************************************************************************)
(* The registry on its own (specification SpecRegistry): any sequence of   *)
(* register, execute and list_tools calls on a ToolRegistry, starting from *)
(* the empty registry of __init__ (src/Tool_creation.py:26-28).            *)
(***************************************************************************)
MaxRegistrations == 3

RegistryNames == {"calculate", "lookup"}
RegistryFuncs == {"calculate", "get_weather"}

\* The declaration a caller registers with executable f under name n: the
\* declaration written for f, carrying the name n.
Declarations(n, f) ==
    {[(IF f = "calculate" THEN calculator_tool ELSE weather_tool) EXCEPT !.name = n]}

\* The keyword arguments execute can receive: **kwargs never holds a key that
\* is a parameter of execute.
Kwargs == {a \in ArgMaps : DOMAIN a \cap ExecuteParams = {}}

InitRegistry ==
    /\ tools = EmptyRegistry.tools
    /\ tool_definitions = EmptyRegistry.tool_definitions
    /\ registrations = <<>>
    /\ pc = "setup"
    /\ response = <<>>
    /\ iteration = 0
    /\ call = None
    /\ result = None
    /\ invoked = "none"
    /\ answer = <<>>
    /\ warned = FALSE
    /\ fault = NoFault
    /\ execs = 0
    /\ sends = 0
    /\ received = <<>>
    /\ executed = None
    /\ ended = "none"
    /\ interrupted = "no"
    /\ listing = <<>>
    /\ RouteIdle
    /\ IntentIdle
    /\ CalcIdle

loopVars == <<pc, response, iteration, call, answer, warned, fault, sends,
              received, ended, interrupted>>

\* registry.register(name, func, definition)
RegRegister ==
    /\ Len(tool_definitions) < MaxRegistrations
    /\ \E n \in RegistryNames, f \in RegistryFuncs :
         \E d \in Declarations(n, f) :
            LET reg == register([tools |-> tools,
                                 tool_definitions |-> tool_definitions], n, f, d)
            IN  /\ tools' = reg.tools
                /\ tool_definitions' = reg.tool_definitions
                /\ registrations' = Append(registrations,
                                           [name |-> n, func |-> f, definition |-> d])
    /\ UNCHANGED <<loopVars, result, invoked, execs, executed, listing, otherVars>>

\* registry.execute(name, **kwargs)
RegExecute ==
    /\ \E n \in RegistryNames \cup {"no_such_tool"}, a \in Kwargs :
         \E o \in execute(tools, n, a) :
            /\ result' = o.out.value
            /\ invoked' = o.invoked
            /\ executed' = [name |-> n, args |-> a]
    /\ UNCHANGED <<registryVars, loopVars, execs, listing, otherVars>>

\* registry.list_tools()
RegListTools ==
    /\ listing' = list_tools(tool_definitions)
    /\ UNCHANGED <<registryVars, loopVars, result, invoked, execs, executed,
                   otherVars>>

NextRegistry == RegRegister \/ RegExecute \/ RegListTools

SpecRegistry == InitRegistry /\ [][NextRegistry]_vars

\* C5: when the executable of a registered name raises, execute returns (it does
\* not raise) an error-shaped result whose message contains the reason of the
\* failure, after invoking that executable, and no execute call changes the
\* registry: every name resolves to the same executable and the declaration
\* list is the same as before the call.  (A step that changes what was executed
\* or returned is an execute call.)
C5_FailingExecuteIsReported ==
    [][<<executed, result, invoked>>' # <<executed, result, invoked>> =>
         /\ tools' = tools
         /\ tool_definitions' = tool_definitions
         /\ (executed'.name \in DOMAIN tools
               => \A o \in CallTool(tools[executed'.name], executed'.args) :
                     o.raised =>
                        /\ IsErrorShaped(result')
                        /\ Contains(result'.error, o.reason)
                        /\ invoked' = tools[executed'.name])]_vars

\* C5 witness: a registered executable raised (here on an unexpected keyword)
\* and the registry still holds a re-registered name.
C5_Witness ==
    /\ ~IsNone(executed)
    /\ executed.name \in DOMAIN tools
    /\ invoked # "none"
    /\ IsErrorShaped(result)
    /\ Contains(result.error, "got an unexpected keyword argument")
    /\ Len(tool_definitions) = MaxRegistrations

(***************************************************************************)
(* src/routing.py: the complexity router (specification SpecRoute).  A     *)
(* text is the sequence of its characters.                                 *)
(***************************************************************************)
MaxFragments == 3

Whitespace == {" ", "\n", "\t"}

\* str.lower(), on the letters the texts below use.
LowerChar(c) ==
    CASE c = "C" -> "c" [] c = "O" -> "o" [] c = "M" -> "m" [] c = "P" -> "p"
      [] c = "L" -> "l" [] c = "E" -> "e" [] c = "X" -> "x" [] c = "T" -> "t"
      [] c = "S" -> "s" [] c = "I" -> "i" [] OTHER -> c

Lower(s) == [i \in 1..Len(s) |-> LowerChar(s[i])]

\* str.strip(): drop the leading and the trailing whitespace.
RECURSIVE LStrip(_)
LStrip(s) == IF Len(s) > 0 /\ s[1] \in Whitespace THEN LStrip(Tail(s)) ELSE s
RECURSIVE RStrip(_)
RStrip(s) ==
    IF Len(s) > 0 /\ s[Len(s)] \in Whitespace
    THEN RStrip(SubSeq(s, 1, Len(s) - 1)) ELSE s
Strip(s) == RStrip(LStrip(s))

\* Python's "sub in s": scan s from the left for a position where sub starts.
RECURSIVE StartsWith(_, _)
StartsWith(s, sub) ==
    IF Len(sub) = 0 THEN TRUE
    ELSE IF Len(s) = 0 THEN FALSE
    ELSE s[1] = sub[1] /\ StartsWith(Tail(s), Tail(sub))
RECURSIVE In(_, _)
In(sub, s) ==
    IF StartsWith(s, sub) THEN TRUE
    ELSE IF Len(s) = 0 THEN FALSE
    ELSE In(sub, Tail(s))

complex == <<"c", "o", "m", "p", "l", "e", "x">>

\* The pieces the router model's answers are made of.
Fragments ==
    { complex,
      <<"C", "O", "M", "P", "L", "E", "X">>,
      <<"C", "o", "m", "p", "l", "e", "x">>,
      <<"c", "o", "m">>,
      <<"P", "L", "E", "X">>,
      <<"s", "i", "m", "p", "l", "e">>,
      <<"T", "h", "i", "s", " ", "i", "s", " ">>,
      <<" ">>,
      <<"\n">>,
      <<".">> }

RECURSIVE TextsOf(_)
TextsOf(n) ==
    IF n = 0 THEN {<<>>}
    ELSE LET shorter == TextsOf(n - 1)
         IN  shorter \cup {t \o f : t \in shorter, f \in Fragments}

DecisionTexts == TextsOf(MaxFragments)

\* A router that takes only the bare label for "complex".
route_llm_exact(text) ==
    IF Lower(Strip(text)) = complex THEN "pro" ELSE "flash"

\* route_llm from the router model's text on (src/routing.py:18-22).
route_llm(text) ==
    LET decision == Lower(Strip(text))
    IN  IF In(complex, decision) THEN "pro" ELSE "flash"

\* The lines a user types; a text sent to a model is the list of its pieces.
Prompts == {<<"what is 2+2">>, <<"prove the theorem">>}

\* A generation call that is handed the classification text.
GenerationPromptTemplate(q) ==
    <<"Classify this request into one label: simple, complex. Request: ">>
        \o q \o <<"Answer only the label.">>

\* The f-string route_llm sends to the router model (lines 11-17).
ClassificationPrompt(q) ==
    <<"Classify this request into one label: simple, complex. Request: ">>
        \o q \o <<"Answer only the label.">>

\* The argument of model.generate_content in ask (line 26).
GenerationPrompt(q) == q

InitRoute ==
    /\ rpc = "input"
    /\ decisionText = <<>>
    /\ handle = "none"
    /\ prompt = <<>>
    /\ classifyCalls = 0
    /\ generateCalls = 0
    /\ classified = <<>>
    /\ generated = None
    /\ lastAsk = None
    /\ tools = EmptyRegistry.tools
    /\ tool_definitions = EmptyRegistry.tool_definitions
    /\ registrations = <<>>
    /\ pc = "routing"
    /\ response = <<>>
    /\ iteration = 0
    /\ call = None
    /\ result = None
    /\ invoked = "none"
    /\ answer = <<>>
    /\ warned = FALSE
    /\ fault = NoFault
    /\ execs = 0
    /\ sends = 0
    /\ received = <<>>
    /\ executed = None
    /\ ended = "none"
    /\ interrupted = "no"
    /\ listing = <<>>
    /\ IntentIdle
    /\ CalcIdle

\* q = input("You: "); ask(q) is entered (lines 30-31, 24)
RouteInput ==
    /\ rpc = "input"
    /\ rpc' = "classify"
    /\ prompt' \in Prompts
    /\ classifyCalls' = 0
    /\ generateCalls' = 0
    /\ classified' = <<>>
    /\ generated' = None
    /\ UNCHANGED <<decisionText, handle, lastAsk, mainVars, intentVars, calcVars>>

\* model = route_llm(prompt) (lines 11-22, 25): the router model answers with a
\* text, or the call raises and, nothing catching it, the program ends.
RouteClassify ==
    /\ rpc = "classify"
    /\ classifyCalls' = classifyCalls + 1
    /\ classified' = ClassificationPrompt(prompt)
    /\ \/ \E text \in DecisionTexts :
            /\ decisionText' = text
            /\ handle' = route_llm(text)
            /\ rpc' = "generate"
       \/ /\ rpc' = "crashed"
          /\ UNCHANGED <<decisionText, handle>>
    /\ UNCHANGED <<prompt, generateCalls, generated, lastAsk, mainVars, intentVars, calcVars>>

\* response = model.generate_content(prompt); ask returns and its locals are
\* gone; print (lines 26-27, 31).  Or the call raises and the program ends.
RouteGenerate ==
    /\ rpc = "generate"
    /\ generateCalls' = generateCalls + 1
    /\ generated' = [handle |-> handle, prompt |-> GenerationPrompt(prompt)]
    /\ \/ /\ rpc' = "input"
          /\ lastAsk' = [prompt |-> prompt, handle |-> handle]
       \/ /\ rpc' = "crashed"
          /\ UNCHANGED lastAsk
    /\ decisionText' = <<>>
    /\ handle' = "none"
    /\ UNCHANGED <<prompt, classifyCalls, classified, mainVars, intentVars, calcVars>>

NextRoute == RouteInput \/ RouteClassify \/ RouteGenerate

SpecRoute == InitRoute /\ [][NextRoute]_vars

\* The capital of a lower-case letter of "complex".
UpperChar(c) ==
    CASE c = "c" -> "C" [] c = "o" -> "O" [] c = "m" -> "M" [] c = "p" -> "P"
      [] c = "l" -> "L" [] c = "e" -> "E" [] c = "x" -> "X"

\* The word "complex" stands at position i of text, in any mix of cases.
ComplexAt(text, i) ==
    \A j \in 1..Len(complex) :
        text[i + j - 1] \in {complex[j], UpperChar(complex[j])}

\* C10: route_llm returns the capable-tier handle (pro) exactly when the
\* classification text holds the word "complex" somewhere, in any mix of cases
\* (which is what is left of it after trimming and lower-casing); for every other
\* text, the empty one included, it returns the fast-tier handle (flash).
C10_RouteDecision ==
    rpc = "generate" =>
        /\ handle \in {"pro", "flash"}
        /\ handle = "pro" <=>
              \E i \in 1..(Len(decisionText) - Len(complex) + 1) :
                  ComplexAt(decisionText, i)

\* C10 witness: "This is COMPLEX" routes to pro.
C10_Witness ==
    /\ rpc = "generate"
    /\ handle = "pro"
    /\ decisionText = <<"T", "h", "i", "s", " ", "i", "s", " ",
                        "C", "O", "M", "P", "L", "E", "X">>

(***************************************************************************)
(* src/intent_classification.py (specification SpecIntent).  The backend's *)
(* response text is a sequence of tokens: punctuation, string literals,    *)
(* numbers, bare words and whitespace.                                     *)
(***************************************************************************)
Punct(c) == [p |-> c]
StrLit(x) == [s |-> x]
NumLit(n) == [n |-> n]
Word(w) == [w |-> w]
Space == [ws |-> TRUE]

IsPunct(t, c) == "p" \in DOMAIN t /\ t.p = c
IsStrLit(t) == "s" \in DOMAIN t
IsNumLit(t) == "n" \in DOMAIN t
IsSpace(t) == "ws" \in DOMAIN t
IsScalar(t) == IsStrLit(t) \/ IsNumLit(t)

Labels == {"book_flight", "order_food", "cancel_flight"}

\* The allowed-label lists a caller passes (non-empty).
IntentLists == SUBSET Labels \ {{}}

\* {"key": value}
ObjectText(key, value) ==
    <<Punct("{"), StrLit(key), Punct(":"), Space, value, Punct("}")>>

\* The response texts, each with what it is: whether it is JSON, and the label
\* its "intent" field names ("none" if it names none).
Replies ==
    {[tokens |-> ObjectText("intent", StrLit(l)), json |-> TRUE, label |-> l]
        : l \in Labels \cup {"Order_Food"}}
    \cup
    {[tokens |-> <<Space>> \o ObjectText("intent", StrLit(l)) \o <<Space>>,
      json |-> TRUE, label |-> l] : l \in {"order_food"}}
    \cup
    {[tokens |-> <<Punct("{"), StrLit("intent"), Punct(":"), StrLit(l), Punct(","),
                   StrLit("confidence"), Punct(":"), NumLit(1), Punct("}")>>,
      json |-> TRUE, label |-> l] : l \in {"book_flight"}}
    \cup
    {[tokens |-> <<Punct("{"), StrLit("intent"), Punct(":"), StrLit("book_flight"),
                   Punct(","), StrLit("intent"), Punct(":"), StrLit(l), Punct("}")>>,
      json |-> TRUE, label |-> l] : l \in {"order_food"}}
    \cup
    { [tokens |-> ObjectText("label", StrLit("order_food")), json |-> TRUE,
       label |-> "none"],
      [tokens |-> ObjectText("intent", NumLit(1)), json |-> TRUE, label |-> "none"],
      [tokens |-> <<Punct("{"), Punct("}")>>, json |-> TRUE, label |-> "none"],
      [tokens |-> <<StrLit("order_food")>>, json |-> TRUE, label |-> "none"],
      [tokens |-> <<Punct("["), Punct("]")>>, json |-> TRUE, label |-> "none"],
      [tokens |-> <<Word("order_food")>>, json |-> FALSE, label |-> "none"],
      [tokens |-> <<Punct("{"), StrLit("intent"), Punct(":"), Space,
                    StrLit("order_food")>>, json |-> FALSE, label |-> "none"],
      [tokens |-> ObjectText("intent", StrLit("order_food")) \o <<Word("thanks")>>,
       json |-> FALSE, label |-> "none"],
      [tokens |-> <<>>, json |-> FALSE, label |-> "none"] }

\* JSON ignores whitespace between tokens.
RECURSIVE Significant(_)
Significant(ts) ==
    IF Len(ts) = 0 THEN <<>>
    ELSE IF IsSpace(ts[1]) THEN Significant(Tail(ts))
    ELSE <<ts[1]>> \o Significant(Tail(ts))

\* The members of an object after "{": "key": scalar, separated by commas, up
\* to "}".  A dict as the outcome, the later of two equal keys winning.
RECURSIVE ParseMembers(_, _)
ParseMembers(ts, dict) ==
    IF Len(ts) >= 4 /\ IsStrLit(ts[1]) /\ IsPunct(ts[2], ":") /\ IsScalar(ts[3])
    THEN LET more == (ts[1].s :> ts[3]) @@ dict
         IN  IF IsPunct(ts[4], "}") /\ Len(ts) = 4 THEN Return(more)
             ELSE IF IsPunct(ts[4], ",") THEN ParseMembers(SubSeq(ts, 5, Len(ts)), more)
             ELSE Raise("JSONDecodeError", "Expecting ',' delimiter", "parse")
    ELSE Raise("JSONDecodeError", "Expecting property name", "parse")

\* json.loads(text)
JsonLoads(text) ==
    LET ts == Significant(text)
    IN  IF Len(ts) = 1 /\ IsScalar(ts[1]) THEN Return(ts[1])
        ELSE IF Len(ts) = 2 /\ IsPunct(ts[1], "[") /\ IsPunct(ts[2], "]")
        THEN Return([list |-> <<>>])
        ELSE IF Len(ts) = 2 /\ IsPunct(ts[1], "{") /\ IsPunct(ts[2], "}")
        THEN Return([dict |-> <<>>])
        ELSE IF Len(ts) > 2 /\ IsPunct(ts[1], "{")
        THEN LET members == ParseMembers(Tail(ts), <<>>)
             IN  IF members.raised THEN members
                 ELSE Return([dict |-> members.value])
        ELSE Raise("JSONDecodeError", "Expecting value", "parse")

\* str.strip() on tokens.
RECURSIVE LStripTokens(_)
LStripTokens(ts) ==
    IF Len(ts) > 0 /\ IsSpace(ts[1]) THEN LStripTokens(Tail(ts)) ELSE ts
RECURSIVE RStripTokens(_)
RStripTokens(ts) ==
    IF Len(ts) > 0 /\ IsSpace(ts[Len(ts)])
    THEN RStripTokens(SubSeq(ts, 1, Len(ts) - 1)) ELSE ts

\* build_dynamic_schema(intents): a model with the one field "intent", its
\* values the Literal of the labels of this call.
build_dynamic_schema(allowed) == [intent |-> allowed]

\* A validation that falls back to a default label instead of raising.
ValidateOrDefault(schema, parsed) ==
    IF "dict" \in DOMAIN parsed /\ "intent" \in DOMAIN parsed.dict
       /\ IsStrLit(parsed.dict["intent"])
       /\ parsed.dict["intent"].s \in schema.intent
    THEN Return([intent |-> parsed.dict["intent"].s])
    ELSE Return([intent |-> "unknown"])

\* IntentModel(**parsed_json): the validated model, or the exception.
Validate(schema, parsed) ==
    IF "dict" \notin DOMAIN parsed
    THEN Raise("TypeError", "argument after ** must be a mapping", "validate")
    ELSE IF "intent" \notin DOMAIN parsed.dict
    THEN Raise("ValidationError", "intent: field required", "validate")
    ELSE IF ~IsStrLit(parsed.dict["intent"])
            \/ parsed.dict["intent"].s \notin schema.intent
    THEN Raise("ValidationError", "intent: unexpected value", "validate")
    ELSE Return([intent |-> parsed.dict["intent"].s])

\* classify_intent from the backend's response on (lines 37, 54-57).
classify_intent(text, allowed) ==
    LET IntentModel == build_dynamic_schema(allowed)
        parsed_json == JsonLoads(RStripTokens(LStripTokens(text)))
    IN  IF parsed_json.raised THEN parsed_json
        ELSE Validate(IntentModel, parsed_json.value)

InitIntent ==
    /\ IntentIdle
    /\ CalcIdle
    /\ RouteIdle
    /\ tools = EmptyRegistry.tools
    /\ tool_definitions = EmptyRegistry.tool_definitions
    /\ registrations = <<>>
    /\ pc = "intent"
    /\ response = <<>>
    /\ iteration = 0
    /\ call = None
    /\ result = None
    /\ invoked = "none"
    /\ answer = <<>>
    /\ warned = FALSE
    /\ fault = NoFault
    /\ execs = 0
    /\ sends = 0
    /\ received = <<>>
    /\ executed = None
    /\ ended = "none"
    /\ interrupted = "no"
    /\ listing = <<>>

\* One call classify_intent(user_input, intents): the backend answers with a
\* text, which is parsed and validated.
Classify ==
    /\ \E allowed \in IntentLists, r \in Replies :
          /\ intents' = allowed
          /\ earlier' = earlier \cup intents
          /\ replyText' = [text |-> r.tokens]
          /\ outcome' = classify_intent(r.tokens, allowed)
    /\ UNCHANGED <<mainVars, routeVars, calcVars>>

\* One call classify_intent in which model.generate_content raises.
ClassifyBackendFault ==
    /\ \E allowed \in IntentLists :
          /\ intents' = allowed
          /\ earlier' = earlier \cup intents
    /\ replyText' = None
    /\ outcome' = Raise("Exception", "backend call failed", "backend")
    /\ UNCHANGED <<mainVars, routeVars, calcVars>>

NextIntent == Classify \/ ClassifyBackendFault

SpecIntent == InitIntent /\ [][NextIntent]_vars

\* What the response text in hand is (see Replies).
ReplyInHand == CHOOSE r \in Replies : r.tokens = replyText.text

\* C9: a call returns an intent only if the response is JSON naming a label of
\* the list passed to that same call, and then it returns that label; if the
\* response is not JSON or names no label of that list (be it one allowed in an
\* earlier call), the call raises; it never returns another label.
C9_IntentValidated ==
    /\ (~IsNone(outcome) /\ ~outcome.raised) =>
          /\ ~IsNone(replyText)
          /\ ReplyInHand.json
          /\ ReplyInHand.label \in intents
          /\ outcome.value = [intent |-> ReplyInHand.label]
    /\ (~IsNone(outcome) /\ ~IsNone(replyText)
          /\ (~ReplyInHand.json \/ ReplyInHand.label \notin intents))
          => outcome.raised

\* C9 witness: the response names a label that an earlier call allowed and this
\* call does not, and the call raised.
C9_Witness ==
    /\ ~IsNone(outcome)
    /\ ~IsNone(replyText)
    /\ ReplyInHand.json
    /\ ReplyInHand.label \in earlier \ intents
    /\ outcome.raised
    /\ outcome.exc = "ValidationError"

(***************************************************************************)
(* Properties of ask and of the prompt loop of routing.py (SpecRoute).     *)
(***************************************************************************)
\* The label of the classification in hand is "complex" (see C10).
LabelIsComplex ==
    \E i \in 1..(Len(decisionText) - Len(complex) + 1) : ComplexAt(decisionText, i)

\* C11: every ask makes one classification call on the router model, with the
\* classification text of its prompt, and then one generation call, on the
\* handle that this classification's label selects and with the original prompt
\* unchanged; an ask that returns has made exactly one call of each.  Nothing is
\* remembered from an earlier ask of the same prompt.
C11_CallSequence ==
    /\ [](/\ generateCalls <= classifyCalls
          /\ classifyCalls <= 1
          /\ rpc = "classify" => classifyCalls = 0
          /\ rpc = "generate" =>
                /\ classifyCalls = 1
                /\ generateCalls = 0
                /\ classified # prompt
                /\ handle = IF LabelIsComplex THEN "pro" ELSE "flash")
    /\ [][rpc = "generate" =>
            /\ generateCalls' = 1
            /\ classifyCalls' = 1
            /\ generated' = [handle |-> handle, prompt |-> prompt]
            /\ rpc' = "input" => lastAsk' = [prompt |-> prompt, handle |-> handle]]_vars

\* C11 witness: the same prompt is asked again and is routed to the other handle.
C11_Witness ==
    /\ rpc = "generate"
    /\ ~IsNone(lastAsk)
    /\ lastAsk.prompt = prompt
    /\ lastAsk.handle = "flash"
    /\ handle = "pro"
    /\ classifyCalls = 1

\* C15: a fault of the backend, in the classification call or in the generation
\* call, does not end the prompt loop of routing.py: the loop is always reading
\* a prompt or answering one.
C15_RouteLoopSurvivesFaults == rpc \in {"input", "classify", "generate"}

\* ---------------------------------------------------------------------------
\* The registry: one declaration per name, declarations in registration order
\* ---------------------------------------------------------------------------

\* The positions of the register calls made under name n.
RegisteredAt(n) == {i \in 1..Len(registrations) : registrations[i].name = n}

\* The last register call made under name n (n has been registered).
LastRegistration(n) ==
    registrations[CHOOSE i \in RegisteredAt(n) : \A j \in RegisteredAt(n) : j <= i]

\* The declarations the list holds for name n, by position.
DeclaredAt(n) == {i \in 1..Len(tool_definitions) : tool_definitions[i].name = n}

\* C12: after any sequence of register calls, each registered name identifies
\* exactly one executable, that of its last registration, and exactly one
\* declaration in the declaration list, that of its last registration: the
\* list never holds two declarations for one name nor a superseded declaration.
C12_NameUniqueness ==
    \A i \in 1..Len(registrations) :
        LET n == registrations[i].name
        IN  /\ n \in DOMAIN tools
            /\ tools[n] = LastRegistration(n).func
            /\ Cardinality(DeclaredAt(n)) = 1
            /\ \A k \in DeclaredAt(n) :
                    tool_definitions[k] = LastRegistration(n).definition

MaxOperand == 2
Operands == (-MaxOperand)..MaxOperand

\* The operations a request can name: the seven declared ones and one other.
RequestedOperations == Operations \cup {"cube"}

\* The argument mappings of a calculate request: b is given or left out.
CalculateArgs ==
    {[operation |-> op, a |-> x] : op \in RequestedOperations, x \in Operands}
    \cup {[operation |-> op, a |-> x, b |-> y] :
              op \in RequestedOperations, x \in Operands, y \in Operands}

Range(seq) == {seq[i] : i \in 1..Len(seq)}

\* kwargs is valid under a declaration: every required parameter present, only
\* declared parameters used, enum-constrained parameters taking a listed value.
ValidArgs(decl, kwargs) ==
    /\ Range(decl.required) \subseteq DOMAIN kwargs
    /\ DOMAIN kwargs \subseteq decl.properties
    /\ \A k \in DOMAIN decl.enum \cap DOMAIN kwargs : kwargs[k] \in decl.enum[k]

InitCalculate ==
    /\ tools = registry.tools
    /\ tool_definitions = registry.tool_definitions
    /\ registrations = ModuleRegistrations
    /\ pc = "setup"
    /\ response = <<>>
    /\ iteration = 0
    /\ call = None
    /\ result = None
    /\ invoked = "none"
    /\ answer = <<>>
    /\ warned = FALSE
    /\ fault = NoFault
    /\ execs = 0
    /\ sends = 0
    /\ received = <<>>
    /\ executed = None
    /\ ended = "none"
    /\ interrupted = "no"
    /\ listing = <<>>
    /\ RouteIdle
    /\ IntentIdle
    /\ calcArgs \in CalculateArgs
    /\ calcResult = None

\* registry.execute("calculate", **calcArgs) returns.
CalcExecute ==
    /\ IsNone(calcResult)
    /\ \E o \in execute(tools, "calculate", calcArgs) :
          /\ ~o.out.raised
          /\ calcResult' = o.out.value
    /\ UNCHANGED <<calcArgs, mainVars, routeVars, intentVars>>

\* The next request arrives.
CalcRequest ==
    /\ ~IsNone(calcResult)
    /\ calcArgs' \in CalculateArgs
    /\ calcResult' = None
    /\ UNCHANGED <<mainVars, routeVars, intentVars>>

NextCalculate == CalcExecute \/ CalcRequest

SpecCalculate == InitCalculate /\ [][NextCalculate]_vars

Returned == ~IsNone(calcResult)

\* C13 as stated: for every argument mapping valid under calculate's
\* declaration, execute("calculate", args) returns a success-shaped result.
C13_ValidArgsSucceed ==
    (Returned /\ ValidArgs(calculator_tool, calcArgs)) => ~IsErrorShaped(calcResult)

\* The valid requests whose computation calculate does not carry out: a binary
\* operation without its second operand, a modulo by zero, zero raised to a
\* negative power, the square root of a negative number.
Undefined(kwargs) ==
    \/ kwargs.operation # "sqrt" /\ "b" \notin DOMAIN kwargs
    \/ kwargs.operation = "sqrt" /\ kwargs.a < 0
    \/ /\ "b" \in DOMAIN kwargs
       /\ \/ kwargs.operation = "modulo" /\ kwargs.b = 0
          \/ kwargs.operation = "power" /\ kwargs.a = 0 /\ kwargs.b < 0

\* C13: for every argument mapping valid under calculate's declaration,
\* execute("calculate", args) returns a mapping, which is error-shaped exactly
\* when the request is one of the undefined ones above and success-shaped
\* otherwise; execute is enabled (returns, never raises) for every request.
C13_ValidArgsSucceedWhenDefined ==
    /\ IsNone(calcResult) => ENABLED CalcExecute
    /\ (Returned /\ ValidArgs(calculator_tool, calcArgs)) =>
          (IsErrorShaped(calcResult) <=> Undefined(calcArgs))

C13_Witness ==
    /\ Returned
    /\ ValidArgs(calculator_tool, calcArgs)
    /\ calcArgs.operation = "multiply"
    /\ "b" \in DOMAIN calcArgs
    /\ ~IsErrorShaped(calcResult)
    /\ calcResult.result = Num(-4)

\* C20: whatever calculate returns is either error-shaped or a success-shaped
\* mapping whose "result" is a number; no success-shaped mapping carries an
\* error description in "result".
C20_UndefinedIsErrorShaped ==
    Returned => (IsErrorShaped(calcResult) \/ IsNumber(calcResult.result))

\* ---------------------------------------------------------------------------
\* The dispatch loop: classification, sequencing, first directive, budget
\* ---------------------------------------------------------------------------

\* A step of the loop itself, not the arrival of a KeyboardInterrupt.
LoopStep == interrupted' = interrupted

\* The tool-call directives of a response, in part order.
Directives(resp) == SelectSeq(resp, IsCallPart)

\* C14: while the budget is not exhausted, a response with a tool-call
\* directive in any of its parts is not printed as the final answer and leads
\* to a tool execution (the loop goes on to execute one of its directives); a
\* response is printed as the final answer only if it has no directive, and a
\* response without a directive never leads to a tool execution.
C14_ResponseClassification ==
    [][(pc = "check" /\ iteration < max_iterations /\ LoopStep) =>
          IF HasCall(response)
          THEN /\ answer' = answer
               /\ pc' = "exec"
               /\ \E i \in 1..Len(response) :
                     /\ IsCallPart(response[i])
                     /\ call' = response[i].function_call
          ELSE /\ pc' # "exec"
               /\ call' = call]_vars

\* C17: within a turn backend calls and tool executions alternate, starting
\* with a backend call: the executions never outnumber the calls and the calls
\* are at most one ahead; every directive handed to the tool step is executed
\* exactly once and its result is sent next; a tool is executed only for the
\* directive of a response received since the last execution; when a turn has
\* ended the backend calls are the executions plus one.
C17_StrictSequencing ==
    /\ [](/\ execs <= sends
          /\ sends <= execs + 1
          /\ pc \in {"check", "exec", "after"} => sends = execs + 1
          /\ pc = "send_result" => sends = execs
          /\ (pc = "input" /\ ended # "none") => sends = execs + 1)
    /\ [][(pc = "exec" /\ LoopStep) =>
            /\ execs' = execs + 1
            /\ executed' = call
            /\ pc' = "send_result"]_vars
    /\ [][(pc = "send_result" /\ LoopStep) =>
            /\ sends' = sends + 1
            /\ execs' = execs]_vars
    /\ [][execs' > execs => (pc = "exec" /\ sends = execs + 1)]_vars

\* C18: when the response in hand carries several directives and is within
\* the budget, the loop hands its first directive to the tool step, and the
\* tool step performs exactly one execution, of that first directive; no
\* other execution happens until the next response has been received.
C18_OnlyFirstDirective ==
    /\ [][(pc = "check" /\ iteration < max_iterations /\ LoopStep
              /\ Len(Directives(response)) >= 2 /\ FirstIsCall(response)) =>
            /\ pc' = "exec"
            /\ call' = response[1].function_call]_vars
    /\ [][(pc = "exec" /\ LoopStep /\ Len(Directives(response)) >= 2) =>
            /\ execs' = execs + 1
            /\ executed' = response[1].function_call
            /\ pc' = "send_result"]_vars
    /\ [][(pc = "send_result" /\ LoopStep) => execs' = execs]_vars

\* C19: the tool executions performed for the current prompt are never more
\* than 5: they follow the loop counter, which never exceeds 5, and the first
\* response to every prompt is inspected with the counter at 0 and no
\* execution counted, however the previous turn ended.
C19_BudgetPerPrompt ==
    /\ [](/\ execs <= 5
          /\ iteration <= 5
          /\ pc \in {"check", "send_result"} => execs = iteration
          /\ pc = "exec" => execs = iteration - 1)
    /\ [][(pc = "send" /\ pc' = "check") => (iteration' = 0 /\ execs' = 0)]_vars

\* A prompt that follows a turn ended by the bound gets its five executions.
C19_Witness ==
    /\ ended = "warning"
    /\ pc = "send_result"
    /\ execs = 5
    /\ iteration = 5
====
